---------------------------- MODULE Spec2Model ----------------------------
(***************************************************************************)
(* Model of osiris_utils/utils.py: courant2D, time_estimation,             *)
(* transverse_average and integrate.                                       *)
(*                                                                         *)
(* Numbers.  The functions work on floating-point numbers; the model uses  *)
(* exact rationals (rounding is not modelled).  An array buffer holds      *)
(* integer numerators and one common denominator "den": element i of the   *)
(* buffer is data[i] / den.  A scalar result is a record with num and den; *)
(* den = 0 stands for the IEEE values a numpy division by zero yields      *)
(* (num > 0: inf, num < 0: -inf, num = 0: nan).                            *)
(*                                                                         *)
(* Arrays.  A numpy array is a view [buf, shape, rev] on a buffer of the   *)
(* heap: buf is the buffer's address, shape the array's shape, rev says    *)
(* that the (1-D) view walks the buffer backwards, which is what np.flip   *)
(* returns.  Two arrays share storage iff they name the same buffer.       *)
(***************************************************************************)
EXTENDS Integers, Sequences, FiniteSets, TLC

VARIABLES
    req,     \* what the caller asked for: the scalar arguments, or "arrays"
    heap,    \* buffer address -> [data, den]
    arg,     \* the caller-supplied array (a view), or NoValue
    given,   \* the contents of arg when the caller supplied it
    ret,     \* what the last call returned, or NoValue
    err,     \* the exception the last call raised, or NoErr
    ops,     \* the library routines the last call ran, in order
    call,    \* the last call: function and argument values
    depth    \* how many results the caller has passed on as the next input

vars == <<req, heap, arg, given, ret, err, ops, call, depth>>

----------------------------------------------------------------------------
(* Bounds of the model *)

MaxVal == 1      \* array elements are drawn from 0..MaxVal
MaxLen == 4      \* 1-D inputs have 1..MaxLen elements
MaxCells == 4    \* 2-D inputs have shape (R, C) with R, C >= 1, R * C <= MaxCells
MaxDx == 1       \* spacings are drawn from -1..MaxDx
MaxParam == 2    \* run parameters are drawn from 0..MaxParam, n_cpu from -1..MaxParam
MaxDepth == 1    \* results passed on as the next input

Vals == 0..MaxVal
DxVals == -1..MaxDx
ParamVals == 0..MaxParam
CpuVals == -1..MaxParam

----------------------------------------------------------------------------
(* Values *)

NoValue == [kind |-> "none"]
NoErr == [type |-> "none", msg |-> ""]
NoCall == [fn |-> "none"]
EmptyHeap == [b \in {} |-> 0]

Reverse(s) == [i \in 1..Len(s) |-> s[Len(s) + 1 - i]]

RECURSIVE Prod(_)
Prod(s) == IF s = <<>> THEN 1 ELSE Head(s) * Prod(Tail(s))

RECURSIVE SumSeq(_)
SumSeq(s) == IF s = <<>> THEN 0 ELSE Head(s) + SumSeq(Tail(s))

\* numpy.cumsum of a sequence
cumsum(s) == [i \in 1..Len(s) |-> SumSeq(SubSeq(s, 1, i))]

ndarray(b, shape, rev) == [kind |-> "ndarray", buf |-> b, shape |-> shape, rev |-> rev]

\* The elements of a view in the view's own order (row-major), as numerators.
Elems(h, a) == IF a.rev THEN Reverse(h[a.buf].data) ELSE h[a.buf].data

\* The value of an array, apart from where it is stored.
ValueOf(h, a) ==
    IF a.kind = "ndarray"
    THEN [shape |-> a.shape, data |-> Elems(h, a), den |-> h[a.buf].den]
    ELSE [shape |-> <<>>, data |-> <<>>, den |-> 0]

\* The allocator hands out the lowest free address.
NewBuf(h) == CHOOSE b \in 1..(Cardinality(DOMAIN h) + 1) :
                 /\ b \notin DOMAIN h
                 /\ \A c \in 1..(b - 1) : c \in DOMAIN h

Alloc(h, data, den) ==
    [b \in (DOMAIN h) \cup {NewBuf(h)} |->
        IF b \in DOMAIN h THEN h[b] ELSE [data |-> data, den |-> den]]

\* A buffer whose last reference is dropped is freed.
Free(h, b) == [c \in (DOMAIN h) \ {b} |-> h[c]]

\* What a call hands back to the action that made it.
Returned(h, r, o) == [heap |-> h, ret |-> r, err |-> NoErr, ops |-> o]
Raised(h, type, msg, o) == [heap |-> h, ret |-> NoValue, err |-> [type |-> type, msg |-> msg], ops |-> o]


\* Writing through a view stores into the caller's buffer, in the view's order.
Store(h, a, elems) ==
    [h EXCEPT ![a.buf].data = IF a.rev THEN Reverse(elems) ELSE elems]

----------------------------------------------------------------------------
(* The library routines the functions call *)

\* numpy.flip of a 1-D array: a view on the same buffer, walked the other way.
np_flip(a) == ndarray(a.buf, a.shape, ~a.rev)

\* numpy.mean(a, axis): a new array whose shape is a's without the axis and
\* whose elements are the sums along the axis divided by the axis' extent.
\* axis is 0-based, as in numpy; an axis the array does not have is an error.
np_mean(h, a, axis) ==
    IF axis >= Len(a.shape)
    THEN Raised(h, "AxisError", "axis is out of bounds for array", <<"np.mean">>)
    ELSE LET s == a.shape
             B == s[axis + 1]
             rest == Prod(SubSeq(s, axis + 2, Len(s)))
             pre == Prod(SubSeq(s, 1, axis))
             e == Elems(h, a)
             sums == [t \in 1..(pre * rest) |->
                        LET i == (t - 1) \div rest
                            k == (t - 1) % rest
                        IN SumSeq([j \in 1..B |-> e[i * B * rest + (j - 1) * rest + k + 1]])]
             shape == SubSeq(s, 1, axis) \o SubSeq(s, axis + 2, Len(s))
         IN Returned(Alloc(h, sums, h[a.buf].den * B),
                     ndarray(NewBuf(h), shape, FALSE), <<"np.mean">>)

\* scipy's integral over the first interval of every three consecutive
\* samples of equally spaced data, d/3 * (5 f1/4 + 2 f2 - f3/4), times 12.
cumulative_simpson_equal_intervals(y, dx) ==
    [i \in 1..(Len(y) - 2) |-> dx * (5 * y[i] + 8 * y[i + 1] - y[i + 2])]

\* scipy's running sum of the integrals over the intervals between samples:
\* the odd intervals by the formula above, the even ones and the last one by
\* the same formula on the reversed data.  Times 12.  Needs Len(y) >= 3.
cumulatively_sum_simpson_integrals(y, dx) ==
    LET n == Len(y)
        h1 == cumulative_simpson_equal_intervals(y, dx)
        h2 == Reverse(cumulative_simpson_equal_intervals(Reverse(y), dx))
        sub == [k \in 1..(n - 1) |->
                  IF k = n - 1 THEN h2[n - 2]
                  ELSE IF k % 2 = 1 THEN h1[k] ELSE h2[k - 1]]
    IN cumsum(sub)

\* scipy.integrate.cumulative_trapezoid without initial: the running sum of
\* d * (y[i] + y[i+1]) / 2, times 2.  One sample gives the empty sequence.
cumulative_trapezoid(y, dx) ==
    cumsum([i \in 1..(Len(y) - 1) |-> dx * (y[i] + y[i + 1])])

\* Faulty variant: fewer than 3 samples fall back to the rectangle rule
\* d * y[i] instead of the trapezoidal rule.
cumulative_simpson_rectangle(h, y, dx, initial) ==
    LET e == Elems(h, y)
        simpson == Len(e) >= 3
        scale == IF simpson THEN 12 ELSE 1
        res == IF simpson THEN cumulatively_sum_simpson_integrals(e, dx)
               ELSE cumsum([i \in 1..(Len(e) - 1) |-> dx * e[i]])
        den == h[y.buf].den * scale
        out == <<initial * den>> \o [i \in 1..Len(res) |-> res[i] + initial * den]
    IN [heap |-> Alloc(h, out, den), ret |-> ndarray(NewBuf(h), <<Len(out)>>, FALSE)]

\* scipy.integrate.cumulative_simpson(y, dx = dx, initial = initial) of a 1-D
\* array: fewer than 3 samples fall back to cumulative_trapezoid; initial is
\* added to every element and put in front.  The result is a new array.
cumulative_simpson(h, y, dx, initial) ==
    LET e == Elems(h, y)
        simpson == Len(e) >= 3
        scale == IF simpson THEN 12 ELSE 2
        res == IF simpson THEN cumulatively_sum_simpson_integrals(e, dx)
               ELSE cumulative_trapezoid(e, dx)
        den == h[y.buf].den * scale
        out == <<initial * den>> \o [i \in 1..Len(res) |-> res[i] + initial * den]
    IN [heap |-> Alloc(h, out, den), ret |-> ndarray(NewBuf(h), <<Len(out)>>, FALSE)]

\* Unary minus on an array: a new array.
negative(h, a) ==
    LET e == Elems(h, a)
    IN [heap |-> Alloc(h, [i \in 1..Len(e) |-> -e[i]], h[a.buf].den),
        ret |-> ndarray(NewBuf(h), a.shape, FALSE)]

----------------------------------------------------------------------------
(* transverse_average *)

\* Faulty variant: the mean is taken along the first axis.
transverse_average_axis0(h, data) ==
    IF Len(data.shape) # 2
    THEN Raised(h, "ValueError", "The input data must be a 2D array.", <<>>)
    ELSE np_mean(h, data, 0)

\* Faulty variant: only arrays of rank below 2 are rejected.
transverse_average_min_rank(h, data) ==
    IF Len(data.shape) < 2
    THEN Raised(h, "ValueError", "The input data must be a 2D array.", <<>>)
    ELSE np_mean(h, data, 1)

transverse_average(h, data) ==
    IF Len(data.shape) # 2
    THEN Raised(h, "ValueError", "The input data must be a 2D array.", <<>>)
    ELSE np_mean(h, data, 1)

----------------------------------------------------------------------------
(* integrate *)

\* Faulty variant: the accumulator starts at the first sample of the flipped
\* array (the initial value of the commented-out line 106) instead of at 0.
integrate_initial_sample(h, array, dx) ==
    IF Len(array.shape) # 1
    THEN Raised(h, "ValueError", "Array must be 1D", <<>>)
    ELSE LET flip_array == np_flip(array)
             cs == cumulative_simpson(h, flip_array, dx, Elems(h, flip_array)[1])
             int == negative(cs.heap, cs.ret)
         IN Returned(Free(int.heap, cs.ret.buf), np_flip(int.ret),
                     <<"np.flip", "cumulative_simpson", "negative", "np.flip">>)

\* Faulty variant: the result is not flipped back.
integrate_no_flip_back(h, array, dx) ==
    IF Len(array.shape) # 1
    THEN Raised(h, "ValueError", "Array must be 1D", <<>>)
    ELSE LET flip_array == np_flip(array)
             cs == cumulative_simpson(h, flip_array, dx, 0)
             int == negative(cs.heap, cs.ret)
         IN Returned(Free(int.heap, cs.ret.buf), int.ret,
                     <<"np.flip", "cumulative_simpson", "negative">>)

\* Faulty variant: the sign is changed in place, through the flipped view of
\* the caller's array (flip_array *= -1), before integrating.
integrate_negate_in_place(h, array, dx) ==
    IF Len(array.shape) # 1
    THEN Raised(h, "ValueError", "Array must be 1D", <<>>)
    ELSE LET flip_array == np_flip(array)
             e == Elems(h, flip_array)
             h1 == Store(h, flip_array, [i \in 1..Len(e) |-> -e[i]])
             cs == cumulative_simpson(h1, flip_array, dx, 0)
         IN Returned(cs.heap, np_flip(cs.ret),
                     <<"np.flip", "negative", "cumulative_simpson", "np.flip">>)

integrate(h, array, dx) ==
    IF Len(array.shape) # 1
    THEN Raised(h, "ValueError", "Array must be 1D", <<>>)
    ELSE LET flip_array == np_flip(array)
             cs == cumulative_simpson(h, flip_array, dx, 0)
             int == negative(cs.heap, cs.ret)
         IN Returned(Free(int.heap, cs.ret.buf), np_flip(int.ret),
                     <<"np.flip", "cumulative_simpson", "negative", "np.flip">>)

----------------------------------------------------------------------------
(* Scalar arithmetic *)

\* A scalar result: (num / den) when root = 1, its non-negative square root
\* when root = 2.
float(num, den, root) == [kind |-> "float", num |-> num, den |-> den, root |-> root]

\* 1 / x ** 2.  A Python int or float raises ZeroDivisionError for x = 0; a
\* numpy float gives inf (and a RuntimeWarning, which stops nothing).
inv_square(x, numeric) ==
    IF x * x = 0 /\ numeric = "python"
    THEN [ok |-> FALSE, num |-> 0, den |-> 0]
    ELSE [ok |-> TRUE, num |-> 1, den |-> x * x]

----------------------------------------------------------------------------
(* courant2D *)

\* dt = 1 / sqrt(1/dx**2 + 1/dy**2).  With both spacings non-zero the sum is
\* (dx^2 + dy^2) / (dx^2 dy^2) and dt the root of its reciprocal; an infinite
\* term makes the sum and its root infinite, and dt = 1 / inf = 0.
courant2D(dx, dy, numeric) ==
    LET a == inv_square(dx, numeric)
        b == inv_square(dy, numeric)
    IN IF ~a.ok \/ ~b.ok
       THEN Raised(EmptyHeap, "ZeroDivisionError", "division by zero", <<>>)
       ELSE IF a.den = 0 \/ b.den = 0
       THEN Returned(EmptyHeap, float(0, 1, 2), <<"np.sqrt">>)
       ELSE Returned(EmptyHeap, float(a.den * b.den, a.den + b.den, 2), <<"np.sqrt">>)

----------------------------------------------------------------------------
(* time_estimation *)

\* time = (n_cells*ppc*push_time*t_steps)/n_cpu, divided by 3600 when hours
\* is true.  numeric is the kind of number n_cpu is (see inv_square).

\* Faulty variant: hours are taken to have 60 seconds.
time_estimation_60(n_cells, ppc, push_time, t_steps, n_cpu, hours, numeric) ==
    IF n_cpu = 0 /\ numeric = "python"
    THEN Raised(EmptyHeap, "ZeroDivisionError", "division by zero", <<>>)
    ELSE LET time == float(n_cells * ppc * push_time * t_steps, n_cpu, 1)
         IN IF hours
            THEN Returned(EmptyHeap, float(time.num, time.den * 60, 1), <<>>)
            ELSE Returned(EmptyHeap, time, <<>>)

time_estimation(n_cells, ppc, push_time, t_steps, n_cpu, hours, numeric) ==
    IF n_cpu = 0 /\ numeric = "python"
    THEN Raised(EmptyHeap, "ZeroDivisionError", "division by zero", <<>>)
    ELSE LET time == float(n_cells * ppc * push_time * t_steps, n_cpu, 1)
         IN IF hours
            THEN Returned(EmptyHeap, float(time.num, time.den * 3600, 1), <<>>)
            ELSE Returned(EmptyHeap, time, <<>>)

\* The value of the parameter "hours" in a call: False when it is left out.
hours_default(h) == IF h = "omitted" THEN FALSE ELSE h = "True"

----------------------------------------------------------------------------
(* Inputs *)

\* A behaviour starts from one input: an array of rank 0, 1, 2 or 3 for
\* transverse_average and integrate, or the arguments of one of the scalar
\* functions.  Arrays with an extent of 0 are left out.  "numeric" says
\* whether the scalar arguments are Python numbers or numpy floats, which
\* differ in what a division by zero does.

Shapes ==
    {<<>>, <<1, 1, 1>>, <<2, 1, 1>>}
    \cup {<<n>> : n \in 1..MaxLen}
    \cup {<<r, c>> : r \in 1..MaxCells, c \in 1..MaxCells} 

InputShapes == {s \in Shapes : Len(s) = 2 => s[1] * s[2] <= MaxCells}

Numerics == {"python", "numpy"}
HoursArgs == {"omitted", "True", "False"}

ArrayInit ==
    \E s \in InputShapes : \E d \in [1..Prod(s) -> Vals] :
        /\ req = [fn |-> "arrays"]
        /\ heap = (1 :> [data |-> d, den |-> 1])
        /\ arg = ndarray(1, s, FALSE)
        /\ given = [shape |-> s, data |-> d, den |-> 1]

ScalarInit ==
    /\ \/ \E dx \in DxVals, dy \in DxVals, nm \in Numerics :
              req = [fn |-> "courant2D", dx |-> dx, dy |-> dy, numeric |-> nm]
       \/ \E n_cells \in ParamVals, ppc \in ParamVals, push_time \in ParamVals,
             t_steps \in ParamVals, n_cpu \in CpuVals, nm \in Numerics :
              req = [fn |-> "time_estimation", n_cells |-> n_cells, ppc |-> ppc,
                     push_time |-> push_time, t_steps |-> t_steps, n_cpu |-> n_cpu,
                     numeric |-> nm]
    /\ heap = EmptyHeap
    /\ arg = NoValue
    /\ given = ValueOf(EmptyHeap, NoValue)

Init ==
    /\ ArrayInit \/ ScalarInit
    /\ ret = NoValue
    /\ err = NoErr
    /\ ops = <<>>
    /\ call = NoCall
    /\ depth = 0

----------------------------------------------------------------------------
(* Actions: one per call the caller makes *)

\* Before a call the caller holds its argument only: an earlier result that
\* was not passed on has been dropped.
Held(h, a) == [b \in {a.buf} |-> h[b]]

TransverseAverage ==
    /\ req.fn = "arrays"
    /\ LET r == transverse_average(Held(heap, arg), arg)
       IN /\ heap' = r.heap
          /\ ret' = r.ret
          /\ err' = r.err
          /\ ops' = r.ops
    /\ call' = [fn |-> "transverse_average", argval |-> ValueOf(heap, arg), dx |-> 0]
    /\ UNCHANGED <<req, arg, given, depth>>

Integrate ==
    /\ req.fn = "arrays"
    /\ \E dx \in DxVals :
        /\ LET r == integrate(Held(heap, arg), arg, dx)
           IN /\ heap' = r.heap
              /\ ret' = r.ret
              /\ err' = r.err
              /\ ops' = r.ops
        /\ call' = [fn |-> "integrate", argval |-> ValueOf(heap, arg), dx |-> dx]
    /\ UNCHANGED <<req, arg, given, depth>>

\* The caller passes the result on as the argument of its next call (the
\* reduce-then-integrate pipeline) and drops the array it came from.
PassOn ==
    /\ req.fn = "arrays"
    /\ ret.kind = "ndarray"
    /\ depth < MaxDepth
    /\ arg' = ret
    /\ given' = ValueOf(heap, ret)
    /\ heap' = Held(heap, ret)
    /\ ret' = NoValue
    /\ err' = NoErr
    /\ ops' = <<>>
    /\ call' = NoCall
    /\ depth' = depth + 1
    /\ UNCHANGED req

Courant2D ==
    /\ req.fn = "courant2D"
    /\ LET r == courant2D(req.dx, req.dy, req.numeric)
       IN /\ ret' = r.ret
          /\ err' = r.err
          /\ ops' = r.ops
    /\ call' = [fn |-> "courant2D"]
    /\ UNCHANGED <<req, heap, arg, given, depth>>

TimeEstimation ==
    /\ req.fn = "time_estimation"
    /\ \E h \in HoursArgs :
        /\ LET r == time_estimation(req.n_cells, req.ppc, req.push_time, req.t_steps,
                                    req.n_cpu, hours_default(h), req.numeric)
           IN /\ ret' = r.ret
              /\ err' = r.err
              /\ ops' = r.ops
        /\ call' = [fn |-> "time_estimation", hours |-> h]
    /\ UNCHANGED <<req, heap, arg, given, depth>>

Next ==
    \/ TransverseAverage
    \/ Integrate
    \/ PassOn
    \/ Courant2D
    \/ TimeEstimation

Spec == Init /\ [][Next]_vars

----------------------------------------------------------------------------
(* Properties *)

\* The returned array: its elements (numerators, in order) and its denominator.
Out == Elems(heap, ret)
OutDen == heap[ret.buf].den

\* The argument of the last array call, as it was when the call was made.
P == call.argval.data
PDen == call.argval.den

CalledOn(fn, rank) == call.fn = fn /\ Len(call.argval.shape) = rank

\* Row r (1-based) of a row-major R x C array: C consecutive elements.
RowSum(F, r, C) == SumSeq(SubSeq(F, (r - 1) * C + 1, r * C))

\* The cumulative integral of equally spaced samples y that starts at 0 at
\* the first sample, as numerators over the denominator "scale".
CumInt(y, dx) ==
    IF Len(y) >= 3
    THEN [seq |-> <<0>> \o cumulatively_sum_simpson_integrals(y, dx), scale |-> 12]
    ELSE [seq |-> <<0>> \o cumulative_trapezoid(y, dx), scale |-> 2]

\* The weights 1, 4, 2, 4, ..., 4, 1 of the composite Simpson rule on n samples.
SimpsonWeight(i, n) == IF i = 1 \/ i = n THEN 1 ELSE IF i % 2 = 0 THEN 4 ELSE 2

Abs(x) == IF x < 0 THEN -x ELSE x

\* C1: for a 2-D array F of shape (R, C) with R, C >= 1, transverse_average
\* returns a 1-D array of length R whose element r is the arithmetic mean of
\* row r of F, (F[r][0] + ... + F[r][C-1]) / C.
C1_RowMeans ==
    CalledOn("transverse_average", 2) =>
        LET R == call.argval.shape[1]
            C == call.argval.shape[2]
        IN /\ err = NoErr
           /\ ret.kind = "ndarray"
           /\ ret.shape = <<R>>
           /\ Len(Out) = R
           /\ OutDen > 0
           /\ \A r \in 1..R : Out[r] * (C * PDen) = RowSum(P, r, C) * OutDen

\* A 2-D array with a row of unequal elements and columns of unequal
\* elements has been averaged.
C1_Witness ==
    /\ CalledOn("transverse_average", 2)
    /\ call.argval.shape = <<2, 2>>
    /\ P = <<0, 1, 1, 1>>
    /\ ret.kind = "ndarray"

RankError2D == [type |-> "ValueError", msg |-> "The input data must be a 2D array."]
RankError1D == [type |-> "ValueError", msg |-> "Array must be 1D"]

\* C4: transverse_average raises its rank error exactly for the inputs whose
\* rank is not 2 and integrate raises its rank error exactly for the inputs
\* whose rank is not 1; a call that raises it has run no library routine,
\* allocated nothing and returns nothing.
C4_RankRejected ==
    /\ call.fn = "transverse_average" =>
          (Len(call.argval.shape) # 2 <=> err = RankError2D)
    /\ call.fn = "integrate" =>
          (Len(call.argval.shape) # 1 <=> err = RankError1D)
    /\ (call.fn \in {"transverse_average", "integrate"} /\ err.type = "ValueError") =>
          /\ ret = NoValue
          /\ ops = <<>>
          /\ DOMAIN heap = {arg.buf}

\* transverse_average has been called on an array of rank 3 and has raised.
C4_Witness ==
    /\ CalledOn("transverse_average", 3)
    /\ err = RankError2D

\* C5: courant2D fails with InvalidArgument and returns nothing whenever
\* dx <= 0 or dy <= 0, and returns a value only when both are positive.
C5_NonPositiveSpacingRejected ==
    call.fn = "courant2D" =>
        /\ (req.dx <= 0 \/ req.dy <= 0) =>
              (err.type = "InvalidArgument" /\ ret = NoValue)
        /\ ret.kind = "float" => (req.dx > 0 /\ req.dy > 0)

\* C6: time_estimation fails with InvalidArgument and returns nothing
\* whenever n_cpu <= 0.
C6_NonPositiveCpuRejected ==
    (call.fn = "time_estimation" /\ req.n_cpu <= 0) =>
        (err.type = "InvalidArgument" /\ ret = NoValue)

AllPositive ==
    /\ req.n_cells > 0
    /\ req.ppc > 0
    /\ req.push_time > 0
    /\ req.t_steps > 0
    /\ req.n_cpu > 0

\* C7: for positive arguments time_estimation returns
\* (n_cells * ppc * push_time * t_steps) / n_cpu when hours is False or left
\* out, and that value divided by 3600 when hours is True; nothing is raised.
C7_RuntimeFormula ==
    (call.fn = "time_estimation" /\ AllPositive) =>
        LET product == req.n_cells * req.ppc * req.push_time * req.t_steps
        IN /\ err = NoErr
           /\ ret.kind = "float"
           /\ ret.root = 1
           /\ ret.den > 0
           /\ call.hours \in {"omitted", "False"} =>
                 ret.num * req.n_cpu = product * ret.den
           /\ call.hours = "True" =>
                 ret.num * (req.n_cpu * 3600) = product * ret.den

\* The estimate in hours has been computed for positive arguments on more
\* than one processor.
C7_Witness ==
    /\ call.fn = "time_estimation"
    /\ AllPositive
    /\ req.n_cpu = 2
    /\ call.hours = "True"
    /\ ret.kind = "float"

\* C8: integrate accumulates from the left: the first element of the result
\* is 0 and element i is the cumulative integral of the profile from the
\* first sample up to sample i.
C8_LeftToRight ==
    CalledOn("integrate", 1) =>
        LET ci == CumInt(P, call.dx)
        IN /\ ret.kind = "ndarray"
           /\ Len(Out) = Len(P)
           /\ \A i \in 1..Len(P) : Out[i] * (ci.scale * PDen) = ci.seq[i] * OutDen

FrameInv ==
    req.fn = "arrays" =>
        /\ ValueOf(heap, arg) = given
        /\ ret.kind = "ndarray" => ret.buf # arg.buf

\* The outcome of the last call, apart from where the result is stored.
Outcome == [err |-> err, value |-> ValueOf(heap, ret)]

\* A call of the same function with the same argument values as the call
\* before it has the same outcome.
SameCallSameOutcome ==
    (call'.fn \in {"transverse_average", "integrate"} /\ call' = call) => Outcome' = Outcome

\* C10: through any sequence of calls of transverse_average and integrate,
\* failing ones included, the caller's array keeps its values, a returned
\* array shares no storage with it, and repeating a call repeats its outcome.
C10_NoMutationNoAliasing == [](FrameInv) /\ [][SameCallSameOutcome]_vars

\* A result that was passed on has been integrated, and the profile it was
\* computed from is not all 0.
C10_Witness ==
    /\ call.fn = "integrate"
    /\ depth = 1
    /\ err = NoErr
    /\ ret.kind = "ndarray"
    /\ \E i \in 1..Len(given.data) : given.data[i] # 0
    /\ Out[1] # 0

============================================================================
